---- MODULE Spec2Model ----
(***************************************************************************)
(* Model of the Barry MCP client: the tool session (BarryMCPClient in      *)
(* barry_client/client.py) and the two conversation loops                  *)
(* (OllamaAgent.send_message, GeminiAgent.send_message).                   *)
(*                                                                         *)
(* Texts are sequences of tokens: a Python string built by an f-string or  *)
(* by "\n".join is the sequence of its pieces, so that framing and joining *)
(* are visible to the checks.                                              *)
(***************************************************************************)
EXTENDS Integers, Sequences, FiniteSets, TLC

\* ---------------------------------------------------------------- bounds
MaxConnects == 2
MaxDisconnects == 2
MaxTurns == 2
MaxRounds == 1
MaxTools == 2
MaxProps == 1
MaxRows == 3

\* ------------------------------------------------------- input alphabets
\* tool names the worker declares (server.py list_tools) and argument maps
ToolNames == {"query_skus_by_fat", "query_chocolate_products"}
ArgMaps == {"fat30", "dark_callets"}

\* an optional key of a Python dict: absent, or present with a list value
Absent == [present |-> FALSE, val |-> <<>>]
Present(v) == [present |-> TRUE, val |-> v]

\* a property of an inputSchema: its name, the value of its "type" key
\* ("absent" when the key is missing) and its "enum" key
Prop(n, t, e) == [name |-> n, type |-> t, enum |-> e]

\* an inputSchema: the properties in dict order and the "required" key
InputSchema(props, req) == [properties |-> props, required |-> req]

\* a descriptor as list_tools returns it (mcp.types.Tool)
Tool(n, d, schema) == [name |-> n, description |-> d, inputSchema |-> schema]

\* server.py 110-135
FatTool ==
  Tool("query_skus_by_fat", "fat",
       InputSchema(<< Prop("n", "integer", Absent),
                      Prop("fat_value", "number", Absent),
                      Prop("operator", "string", Present(<<"==", "<", "<=", ">", ">=">>)) >>,
                   Present(<<"fat_value">>)))

\* server.py 136-160
ChocTool ==
  Tool("query_chocolate_products", "choc",
       InputSchema(<< Prop("n", "integer", Absent),
                      Prop("chocolate_type", "string", Present(<<"Dark", "Milk", "White">>)),
                      Prop("moulding_type", "string", Absent) >>,
                   Present(<<"chocolate_type", "moulding_type">>)))

\* a descriptor of another worker, with a parameter type outside JSON schema's
\* string/number/integer/boolean/object/array
DateTool ==
  Tool("query_by_date", "date",
       InputSchema(<< Prop("day", "date", Absent) >>, Present(<<"day">>)))

\* the worker's list-tools responses met by the conversation loops
ListToolsResponses ==
  { <<FatTool, ChocTool>>, <<FatTool>>, <<DateTool>> }

\* parts of a call-tool result: a text part has a text attribute, an image
\* part has none
TextPart(t) == [hasText |-> TRUE, text |-> t]
ImagePart == [hasText |-> FALSE, text |-> "img"]
ResultContents ==
  { <<>>, <<TextPart("r1")>>, <<ImagePart>>, <<TextPart("r1"), TextPart("r2")>>,
    <<ImagePart, TextPart("r2")>> }

\* what ClientSession.call_tool can do: deliver a result or raise
Delivered(c) == [kind |-> "result", content |-> c, err |-> "none"]
Raised(e) == [kind |-> "raise", content |-> <<>>, err |-> e]

\* ------------------------------------------------------------- variables
VARIABLES
  session,      \* self.session: "None" or "obj" (truthiness of the field)
  sessState,    \* the ClientSession object: "none", "new", "entered", "exited"
  hasStdio,     \* hasattr(self, 'stdio_context')
  stdioState,   \* the stdio_client context: "none", "failed", "open", "closed"
  tools,        \* self.tools
  workers,      \* worker processes spawned by this client and still running
  sessEnters, sessExits,    \* successful session __aenter__ / calls of __aexit__
  stdioEnters, stdioExits,  \* successful stdio __aenter__ / calls of __aexit__
  connState,    \* state of the ToolSession as the callers see it
  nConn, nDisc,             \* calls of connect, disconnect
  lastOp,       \* the last public call and how it ended
  lastCall,     \* the last call_tool: arguments, whether a request was sent, outcome
  backend,      \* which agent drives the session: "ollama" or "gemini"
  messages,     \* OllamaAgent.messages / the history of GeminiAgent's chat
  pc,           \* position inside send_message: "idle", "query", "tools",
                \* "awaiting", "interrupted"
  response,     \* the local variable response
  idx,          \* position of the for loop over tool_calls (Ollama)
  pending,      \* the text of the chat.send_message about to be made (Gemini)
  stage,        \* which query is about to be made: "initial", "result", "error"
  turns, rounds,            \* send_message calls; tool-requesting responses of the turn
  requested,    \* tool-call requests contained in the responses of this turn
  invoked,      \* calls of mcp_client.call_tool made in this turn
  histAtStart,  \* the conversation state when send_message was called
  userText,     \* the argument of the send_message in progress
  declarations, \* the agent's tool declarations (OllamaAgent.tools,
                \* GeminiAgent.function_declarations), made by __init__
  inflight,     \* call-tool requests issued on the session and not yet answered
  mainPc,       \* position of the owner: "api" (a caller of the client's
                \* methods), main's "start", "connected", "loop", "finally",
                \* "done", or "worker" (the worker process seen alone)
  df,           \* the worker's global df: the loaded dataset, or not loaded
  request,      \* the last call-tool request the worker's handler received
  reply         \* what the handler did with it: the content returned, or a raise

sessVars == <<session, sessState, hasStdio, stdioState, tools, workers,
              sessEnters, sessExits, stdioEnters, stdioExits, connState,
              nConn, nDisc>>

serverVars == <<df, request, reply>>

agentVars == <<backend, messages, pc, response, idx, pending, stage, turns,
               rounds, requested, invoked, histAtStart, userText,
               declarations, inflight>>

vars == <<session, sessState, hasStdio, stdioState, tools, workers,
          sessEnters, sessExits, stdioEnters, stdioExits, connState,
          nConn, nDisc, lastOp, lastCall,
          backend, messages, pc, response, idx, pending, stage, turns,
          rounds, requested, invoked, histAtStart, userText,
          declarations, inflight, mainPc, df, request, reply>>

\* ------------------------------------------------------- BarryMCPClient
NoCall == [name |-> "none", args |-> "none", state |-> "none", sent |-> FALSE,
           raw |-> "none", kind |-> "none", err |-> "none", text |-> <<>>,
           content |-> <<>>]

\* "\n".join(xs)
RECURSIVE JoinNL(_)
JoinNL(xs) ==
  IF Len(xs) = 0 THEN <<>>
  ELSE IF Len(xs) = 1 THEN <<xs[1]>>
  ELSE <<xs[1], "\n">> \o JoinNL(Tail(xs))

\* item.text for item in result.content if hasattr(item, 'text')
RECURSIVE TextsOf(_)
TextsOf(content) ==
  IF Len(content) = 0 THEN <<>>
  ELSE (IF content[1].hasText THEN <<content[1].text>> ELSE <<>>)
       \o TextsOf(Tail(content))

\* client.py 104-110
ExtractText(content) ==
  IF Len(content) > 0 THEN JoinNL(TextsOf(content)) ELSE <<"No result">>

\* the outcomes ClientSession.call_tool can have in the current state: a
\* result needs a started session over a running worker
SessionCallOutcomes(contents) ==
  IF sessState = "entered" /\ stdioState = "open"
    THEN {Delivered(c) : c \in contents} \cup {Raised("McpError")}
    ELSE {Raised("ClosedResourceError")}

\* call_tool with the failure of the session's call turned into a text
call_tool_wrapping(name, args, r) ==
  IF session = "None"
    THEN [name |-> name, args |-> args, state |-> connState, sent |-> FALSE,
          raw |-> "notcalled", kind |-> "raise", err |-> "NotConnected", text |-> <<>>,
          content |-> <<>>]
  ELSE IF r.kind = "raise"
    THEN [name |-> name, args |-> args, state |-> connState, sent |-> TRUE,
          raw |-> "raise", kind |-> "return", err |-> "none", text |-> <<"Error: ", r.err>>,
          content |-> <<>>]
  ELSE [name |-> name, args |-> args, state |-> connState, sent |-> TRUE,
        raw |-> "result", kind |-> "return", err |-> "none", text |-> ExtractText(r.content),
        content |-> r.content]

\* client.py 87-110: the guard on self.session, the request, the extraction.
\* raw records what the session's call did, content the result it delivered,
\* state the session state at the call
call_tool(name, args, r) ==
  IF session = "None"
    THEN [name |-> name, args |-> args, state |-> connState, sent |-> FALSE,
          raw |-> "notcalled", kind |-> "raise", err |-> "NotConnected", text |-> <<>>,
          content |-> <<>>]
  ELSE IF r.kind = "raise"
    THEN [name |-> name, args |-> args, state |-> connState, sent |-> TRUE,
          raw |-> "raise", kind |-> "raise", err |-> r.err, text |-> <<>>,
          content |-> <<>>]
  ELSE [name |-> name, args |-> args, state |-> connState, sent |-> TRUE,
        raw |-> "result", kind |-> "return", err |-> "none", text |-> ExtractText(r.content),
        content |-> r.content]

\* the steps at which connect can fail, in the order of the code; "none" is
\* the successful run
FailPoints == {"spawn", "start", "handshake", "timeout", "list", "none"}

\* client.py 66-79: the list-tools request is made once the handshake returned
ListToolsIssued(failAt) == failAt \in {"list", "none"}

\* the listed descriptors stored in reverse order
StoredTools_Reversed(listed) ==
  [i \in 1..Len(listed) |-> listed[Len(listed) + 1 - i]]

\* client.py 79-80: self.tools = tools_result.tools
StoredTools(listed) == listed

\* client.py 35-85
connect(failAt, listed) ==
  /\ nConn < MaxConnects
  /\ nConn' = nConn + 1
  /\ hasStdio' = TRUE                                   \* line 52
  /\ IF failAt = "spawn"                                \* line 53
       THEN /\ stdioState' = "failed"
            /\ UNCHANGED <<workers, stdioEnters, session, sessState, sessEnters>>
       ELSE /\ stdioState' = "open"
            /\ workers' = workers + 1
            /\ stdioEnters' = stdioEnters + 1
            /\ session' = "obj"                         \* line 58
            /\ IF failAt = "start"                      \* line 62
                 THEN sessState' = "new" /\ UNCHANGED sessEnters
                 ELSE sessState' = "entered" /\ sessEnters' = sessEnters + 1
  /\ tools' = IF failAt = "none" THEN StoredTools(listed) ELSE tools \* lines 79-80
  /\ connState' = IF failAt = "none" THEN "Connected" ELSE "Partial"
  /\ lastOp' = [op |-> "connect",
                out |-> IF failAt = "none" THEN "ok"
                        ELSE IF failAt = "timeout" THEN "ConnectionTimeout"
                        ELSE "raise",
                listTools |-> ListToolsIssued(failAt),
                listed |-> IF failAt = "none" THEN listed ELSE <<>>]
  /\ UNCHANGED <<sessExits, stdioExits, nDisc, lastCall>>
  /\ UNCHANGED agentVars
  /\ UNCHANGED serverVars

\* client.py 112-118; closeRaises: session.__aexit__ raises
disconnect(closeRaises) ==
  /\ nDisc < MaxDisconnects
  /\ nDisc' = nDisc + 1
  /\ LET closesSession == session = "obj"               \* line 114
         raises == closesSession /\ closeRaises
         closesStdio == hasStdio /\ ~raises             \* line 116
     IN /\ sessExits' = IF closesSession THEN sessExits + 1 ELSE sessExits
        /\ sessState' = IF closesSession /\ sessState = "entered"
                          THEN "exited" ELSE sessState
        /\ stdioExits' = IF closesStdio THEN stdioExits + 1 ELSE stdioExits
        /\ IF closesStdio /\ stdioState = "open"
             THEN stdioState' = "closed" /\ workers' = workers - 1
             ELSE UNCHANGED <<stdioState, workers>>
        /\ lastOp' = [op |-> "disconnect", out |-> IF raises THEN "raise" ELSE "ok"]
  /\ connState' = "Disconnected"
  /\ UNCHANGED <<session, hasStdio, tools, sessEnters, stdioEnters, nConn, lastCall>>
  /\ UNCHANGED agentVars
  /\ UNCHANGED serverVars

\* ------------------------------------------------------------ the agents
NoResponse == [content |-> <<>>, tool_calls |-> <<>>, parts |-> <<>>]

UserTexts == {"hi"}

\* a tool-call request of a model response
Call(n, a) == [name |-> n, args |-> a]
CallFat == Call("query_skus_by_fat", "fat30")
CallChoc == Call("query_chocolate_products", "dark_callets")

Msg(role, content, calls) == [role |-> role, content |-> content, tool_calls |-> calls]

\* ---------------------------------------------------------- OllamaAgent
\* responses of ollama.Client.chat: the assistant message's content and
\* its tool_calls list
OllamaResponse(content, calls) == [content |-> content, tool_calls |-> calls, parts |-> <<>>]
OllamaResponses ==
  { OllamaResponse(<<"answer">>, <<>>),
    OllamaResponse(<<>>, <<CallFat>>),
    OllamaResponse(<<>>, <<CallFat, CallChoc>>) }

\* the loop without the handler of line 118
OllamaCatches_NoHandler(out) == out.kind # "raise"

\* ollama_agent.py 118: does the handler around call_tool catch what it raised
OllamaCatches(out) == TRUE

\* ollama_agent.py 113-116, 121-124: the tool message appended for an outcome
OllamaToolMessage(out) ==
  IF out.kind = "return"
    THEN Msg("tool", out.text, <<>>)
    ELSE Msg("tool", <<"Error: ", out.err>>, <<>>)

\* ollama_agent.py 75-81: the user message is appended, the first chat follows
OllamaSendMessage(m) ==
  /\ backend = "ollama"
  /\ pc = "idle"
  /\ turns < MaxTurns
  /\ turns' = turns + 1
  /\ rounds' = 0
  /\ histAtStart' = messages
  /\ userText' = m
  /\ messages' = Append(messages, Msg("user", <<m>>, <<>>))
  /\ requested' = <<>>
  /\ invoked' = <<>>
  /\ stage' = "initial"
  /\ pc' = "query"
  /\ lastOp' = [op |-> "send_message", out |-> "running"]
  /\ UNCHANGED <<response, idx, pending, backend, lastCall>>
  /\ UNCHANGED <<declarations, inflight>>
  /\ UNCHANGED sessVars
  /\ UNCHANGED serverVars

\* ollama_agent.py 84-94 and 127-140: client.chat returned resp; the while
\* test, the append of the assistant message, the return of the content
OllamaChat(resp) ==
  /\ backend = "ollama"
  /\ pc = "query"
  /\ resp.tool_calls # <<>> => rounds < MaxRounds
  /\ response' = resp
  /\ messages' = Append(messages, Msg("assistant", resp.content, resp.tool_calls))
  /\ requested' = requested \o resp.tool_calls
  /\ IF resp.tool_calls # <<>>
       THEN /\ pc' = "tools"
            /\ idx' = 1
            /\ rounds' = rounds + 1
            /\ UNCHANGED lastOp
       ELSE /\ pc' = "idle"
            /\ lastOp' = [op |-> "send_message", out |-> "return", text |-> resp.content]
            /\ UNCHANGED <<idx, rounds>>
  /\ UNCHANGED <<backend, pending, stage, turns, invoked, histAtStart, userText, lastCall>>
  /\ UNCHANGED sessVars
  /\ UNCHANGED serverVars
  /\ UNCHANGED <<declarations, inflight>>
  /\ UNCHANGED mainPc

\* ollama_agent.py 84, 127: client.chat raised; nothing in send_message
\* catches it
OllamaChatFails ==
  /\ backend = "ollama"
  /\ pc = "query"
  /\ pc' = "idle"
  /\ lastOp' = [op |-> "send_message", out |-> "raise", by |-> "backend"]
  /\ UNCHANGED <<backend, messages, response, idx, pending, stage, turns, rounds,
                 requested, invoked, histAtStart, userText, lastCall>>
  /\ UNCHANGED sessVars
  /\ UNCHANGED serverVars
  /\ UNCHANGED <<declarations, inflight>>
  /\ UNCHANGED mainPc

\* the loop goes on to issue the next call without awaiting this one
OllamaAfterIssue_NoAwait == "tools"

\* ollama_agent.py 105-108: await suspends the loop until the call has its result
OllamaAfterIssue == "awaiting"

\* ollama_agent.py 96-108: the request of the current tool call goes out on the session
OllamaIssueCall ==
  /\ backend = "ollama"
  /\ pc = "tools"
  /\ inflight' = IF session # "None" THEN inflight + 1 ELSE inflight
  /\ pc' = OllamaAfterIssue
  /\ UNCHANGED <<backend, messages, response, idx, pending, stage, turns, rounds,
                 requested, invoked, histAtStart, userText, declarations>>
  /\ UNCHANGED <<lastOp, lastCall>>
  /\ UNCHANGED sessVars
  /\ UNCHANGED serverVars
  /\ UNCHANGED mainPc

\* ollama_agent.py 96-124: the call of the current iteration has its outcome,
\* the iteration is finished
OllamaToolCall ==
  /\ backend = "ollama"
  /\ pc = "awaiting"
  /\ \E r \in SessionCallOutcomes(ResultContents) :
     LET tc == response.tool_calls[idx]
         out == call_tool(tc.name, tc.args, r)
     IN /\ lastCall' = out
        /\ inflight' = IF out.sent THEN inflight - 1 ELSE inflight
        /\ invoked' = Append(invoked, Call(out.name, out.args))
        /\ IF out.kind = "raise" /\ ~OllamaCatches(out)
             THEN /\ pc' = "idle"
                  /\ lastOp' = [op |-> "send_message", out |-> "raise", by |-> "tool"]
                  /\ UNCHANGED <<messages, idx>>
             ELSE /\ messages' = Append(messages, OllamaToolMessage(out))
                  /\ idx' = idx + 1
                  /\ pc' = IF idx = Len(response.tool_calls) THEN "query" ELSE "tools"
                  /\ UNCHANGED lastOp
  /\ UNCHANGED <<backend, response, pending, stage, turns, rounds, requested,
                 histAtStart, userText>>
  /\ UNCHANGED sessVars
  /\ UNCHANGED serverVars
  /\ UNCHANGED declarations
  /\ UNCHANGED mainPc

\* ---------------------------------------------------------- GeminiAgent
\* parts of a Gemini response: a text part or a function_call part
GText(t) == [fc |-> FALSE, name |-> "none", args |-> "none", text |-> t]
GCall(c) == [fc |-> TRUE, name |-> c.name, args |-> c.args, text |-> "none"]

\* response.text: the texts of the text parts
RECURSIVE GeminiText(_)
GeminiText(parts) ==
  IF Len(parts) = 0 THEN <<>>
  ELSE (IF parts[1].fc THEN <<>> ELSE <<parts[1].text>>) \o GeminiText(Tail(parts))

\* the function calls a response carries, in the order of its parts
RECURSIVE GeminiCalls(_)
GeminiCalls(parts) ==
  IF Len(parts) = 0 THEN <<>>
  ELSE (IF parts[1].fc THEN <<Call(parts[1].name, parts[1].args)>> ELSE <<>>)
       \o GeminiCalls(Tail(parts))

GeminiResponse(parts) ==
  [content |-> GeminiText(parts), tool_calls |-> GeminiCalls(parts), parts |-> parts]
GeminiResponses ==
  { GeminiResponse(<<GText("answer")>>),
    GeminiResponse(<<GCall(CallFat)>>),
    GeminiResponse(<<GCall(CallFat), GCall(CallChoc)>>),
    GeminiResponse(<<GText("answer"), GCall(CallChoc)>>) }

\* gemini_agent.py 97-101: the loop looks at parts[0] only
GeminiWantsTool(resp) ==
  Len(resp.parts) > 0 /\ resp.parts[1].fc

\* gemini_agent.py 121: does the handler around call_tool catch what it raised
GeminiCatches(out) == TRUE

\* gemini_agent.py 118-120, 124-126: the text sent back for an outcome
GeminiToolText(name, out) ==
  IF out.kind = "return"
    THEN <<"Here is the data from the ", name, " function:\n\n">> \o out.text
         \o <<"\n\nPlease format this nicely for the user.">>
    ELSE <<"Error calling function ", name, ": ", out.err>>

\* gemini_agent.py 84-94: a fresh chat is created, the message is sent to it
GeminiSendMessage(m) ==
  /\ backend = "gemini"
  /\ pc = "idle"
  /\ turns < MaxTurns
  /\ turns' = turns + 1
  /\ rounds' = 0
  /\ histAtStart' = messages
  /\ userText' = m
  /\ messages' = <<>>
  /\ pending' = <<m>>
  /\ requested' = <<>>
  /\ invoked' = <<>>
  /\ stage' = "initial"
  /\ pc' = "query"
  /\ lastOp' = [op |-> "send_message", out |-> "running"]
  /\ UNCHANGED <<response, idx, backend, lastCall>>
  /\ UNCHANGED <<declarations, inflight>>
  /\ UNCHANGED sessVars
  /\ UNCHANGED serverVars

\* gemini_agent.py 94, 118, 124 then 97-101 and 127-135: chat.send_message
\* returned resp; the chat records the text sent and the response
GeminiChatSend(resp) ==
  /\ backend = "gemini"
  /\ pc = "query"
  /\ GeminiWantsTool(resp) => rounds < MaxRounds
  /\ response' = resp
  /\ messages' = messages \o
       << Msg(IF stage = "initial" THEN "user" ELSE "tool", pending, <<>>),
          Msg("assistant", resp.content, resp.tool_calls) >>
  /\ requested' = requested \o resp.tool_calls
  /\ pending' = <<>>
  /\ IF GeminiWantsTool(resp)
       THEN /\ pc' = "tools"
            /\ rounds' = rounds + 1
            /\ UNCHANGED lastOp
       ELSE /\ pc' = "idle"
            /\ lastOp' = [op |-> "send_message", out |-> "return", text |-> resp.content]
            /\ UNCHANGED rounds
  /\ UNCHANGED <<backend, idx, stage, turns, invoked, histAtStart, userText, lastCall>>
  /\ UNCHANGED sessVars
  /\ UNCHANGED serverVars
  /\ UNCHANGED <<declarations, inflight>>
  /\ UNCHANGED mainPc

\* chat.send_message raised: at line 94 or 124 nothing catches it; at line
\* 118 it is inside the try and the handler of line 121 sends the error text
GeminiChatSendFails ==
  /\ backend = "gemini"
  /\ pc = "query"
  /\ IF stage = "result"
       THEN /\ pending' = GeminiToolText(response.parts[1].name,
                                         [kind |-> "raise", err |-> "BackendError"])
            /\ stage' = "error"
            /\ UNCHANGED <<pc, lastOp>>
       ELSE /\ pc' = "idle"
            /\ lastOp' = [op |-> "send_message", out |-> "raise", by |-> "backend"]
            /\ UNCHANGED <<pending, stage>>
  /\ UNCHANGED <<backend, messages, response, idx, turns, rounds,
                 requested, invoked, histAtStart, userText, lastCall>>
  /\ UNCHANGED sessVars
  /\ UNCHANGED serverVars
  /\ UNCHANGED <<declarations, inflight>>
  /\ UNCHANGED mainPc

\* the loop goes on to issue the next call without awaiting this one
GeminiAfterIssue_NoAwait == "tools"

\* gemini_agent.py 109-112: await suspends the loop until the call has its result
GeminiAfterIssue == "awaiting"

\* gemini_agent.py 98-112: the request of the current tool call goes out on the session
GeminiIssueCall ==
  /\ backend = "gemini"
  /\ pc = "tools"
  /\ inflight' = IF session # "None" THEN inflight + 1 ELSE inflight
  /\ pc' = GeminiAfterIssue
  /\ UNCHANGED <<backend, messages, response, idx, pending, stage, turns, rounds,
                 requested, invoked, histAtStart, userText, declarations>>
  /\ UNCHANGED <<lastOp, lastCall>>
  /\ UNCHANGED sessVars
  /\ UNCHANGED serverVars
  /\ UNCHANGED mainPc

\* gemini_agent.py 98-126: the function call of parts[0] has its outcome
GeminiToolCall ==
  /\ backend = "gemini"
  /\ pc = "awaiting"
  /\ \E r \in SessionCallOutcomes(ResultContents) :
     LET fc == response.parts[1]
         out == call_tool(fc.name, fc.args, r)
     IN /\ lastCall' = out
        /\ inflight' = IF out.sent THEN inflight - 1 ELSE inflight
        /\ invoked' = Append(invoked, Call(out.name, out.args))
        /\ IF out.kind = "raise" /\ ~GeminiCatches(out)
             THEN /\ pc' = "idle"
                  /\ lastOp' = [op |-> "send_message", out |-> "raise", by |-> "tool"]
                  /\ UNCHANGED <<pending, stage>>
             ELSE /\ pending' = GeminiToolText(fc.name, out)
                  /\ stage' = IF out.kind = "return" THEN "result" ELSE "error"
                  /\ pc' = "query"
                  /\ UNCHANGED lastOp
  /\ UNCHANGED <<backend, messages, response, idx, turns, rounds, requested,
                 histAtStart, userText>>
  /\ UNCHANGED sessVars
  /\ UNCHANGED serverVars
  /\ UNCHANGED declarations
  /\ UNCHANGED mainPc

\* ------------------------------------------------- schema translation
\* get_tools_schema with a loop that stops one tool early
get_tools_schema_short(ts) ==
  [i \in 1..(Len(ts) - 1) |->
     [name |-> ts[i].name, description |-> ts[i].description,
      parameters |-> ts[i].inputSchema]]

\* client.py 120-138
get_tools_schema(ts) ==
  [i \in 1..Len(ts) |->
     [name |-> ts[i].name, description |-> ts[i].description,
      parameters |-> ts[i].inputSchema]]

\* ollama_agent.py 47-63: the schema is passed through
convert_tools_to_ollama(schema) ==
  [ok |-> TRUE,
   decls |-> [i \in 1..Len(schema) |->
                [type |-> "function",
                 function |-> [name |-> schema[i].name,
                               description |-> schema[i].description,
                               parameters |-> schema[i].parameters]]]]

\* str.upper() on the type names of the input alphabet
Upper(t) ==
  CASE t = "string" -> "STRING"
    [] t = "number" -> "NUMBER"
    [] t = "integer" -> "INTEGER"
    [] t = "boolean" -> "BOOLEAN"
    [] t = "object" -> "OBJECT"
    [] t = "array" -> "ARRAY"
    [] t = "date" -> "DATE"
    [] OTHER -> t

\* the members of types.Type that a JSON schema type name can select
GeminiTypes == {"STRING", "NUMBER", "INTEGER", "BOOLEAN", "OBJECT", "ARRAY"}

\* gemini_agent.py 51: prop_schema.get("type", "string").upper()
GeminiPropType(p) == Upper(IF p.type = "absent" THEN "string" ELSE p.type)

\* the enum key handed on as it is found
GeminiEnum_PassThrough(e) == e

\* gemini_agent.py 55: the enum is kept when it is present and not empty;
\* otherwise None is passed, which is how a Schema holds a field that is not set
GeminiEnum(e) == IF e.present /\ Len(e.val) > 0 THEN Present(e.val) ELSE Absent

\* gemini_agent.py 52-56
GeminiProp(p) ==
  [name |-> p.name, type |-> GeminiPropType(p), enum |-> GeminiEnum(p.enum)]

\* the declaration built without its required list
GeminiRequired_Dropped(params) == <<>>

\* gemini_agent.py 65: tool["parameters"].get("required", [])
GeminiRequired(params) ==
  IF params.required.present THEN params.required.val ELSE <<>>

\* gemini_agent.py 59-67
GeminiDecl(tool) ==
  [name |-> tool.name, description |-> tool.description,
   parameters |->
     [type |-> "OBJECT",
      properties |-> [j \in 1..Len(tool.parameters.properties) |->
                        GeminiProp(tool.parameters.properties[j])],
      required |-> GeminiRequired(tool.parameters)]]

\* gemini_agent.py 53: types.Type[prop_type] raises KeyError for a name that
\* is not a member
GeminiTypeKnown(p) == GeminiPropType(p) \in GeminiTypes

\* gemini_agent.py 43-70
convert_tools_to_gemini(schema) ==
  IF \A i \in 1..Len(schema) :
       \A j \in 1..Len(schema[i].parameters.properties) :
         GeminiTypeKnown(schema[i].parameters.properties[j])
    THEN [ok |-> TRUE, decls |-> [i \in 1..Len(schema) |-> GeminiDecl(schema[i])]]
    ELSE [ok |-> FALSE, decls |-> <<>>]

\* ollama_agent.py 38-40, gemini_agent.py 37-39
NewAgentDeclarations(b, ts) ==
  IF b = "gemini" THEN convert_tools_to_gemini(get_tools_schema(ts))
  ELSE convert_tools_to_ollama(get_tools_schema(ts))

NoDeclarations == [made |-> FALSE, decls |-> <<>>]

\* the descriptors a worker may declare: up to MaxProps properties, each
\* with a type key and an enum key, and a required key
PropNames == <<"p1", "p2", "p3">>
TypeChoices == {"absent", "integer", "date"}
EnumChoices == {Absent, Present(<<>>), Present(<<"a", "b">>)}

PropLists ==
  UNION { { [j \in 1..k |-> Prop(PropNames[j], f[j][1], f[j][2])] :
              f \in [1..k -> TypeChoices \X EnumChoices] } : k \in 0..MaxProps }

RequiredChoices(ps) ==
  {Absent} \cup { Present([j \in 1..k |-> ps[j].name]) : k \in 0..Len(ps) }

InputSchemas ==
  UNION { { InputSchema(ps, rq) : rq \in RequiredChoices(ps) } : ps \in PropLists }

NameSeqs(k) ==
  { ns \in [1..k -> ToolNames] : \A i, j \in 1..k : ns[i] = ns[j] => i = j }

DescriptorLists ==
  UNION { UNION { { [i \in 1..k |-> Tool(ns[i], "d", b[i])] :
                      b \in [1..k -> InputSchemas] } : ns \in NameSeqs(k) } :
          k \in 0..MaxTools }

\* ------------------------------------------------------------ the worker
\* an argument that is an integer or a string, when the request leaves it out
NoInt == [present |-> FALSE, val |-> 0]
NoStr == [present |-> FALSE, val |-> "none"]

\* str.lower() on the strings that occur
StrLower(s) ==
  CASE s = "Dark" -> "dark"
    [] s = "Milk" -> "milk"
    [] s = "White" -> "white"
    [] s = "Bitter" -> "bitter"
    [] s = "Callets" -> "callets"
    [] s = "Mini Chips" -> "mini chips"
    [] s = "Chips" -> "chips"
    [] s = "Chocolate" -> "chocolate"
    [] s = "Chocolate with < 5% Veg Fat" -> "chocolate with < 5% veg fat"
    [] s = "Compound" -> "compound"
    [] OTHER -> s

\* str.contains(needle) on lower-case strings that occur
StrContains(hay, needle) ==
  \/ hay = needle
  \/ <<hay, needle>> \in { <<"chocolate with < 5% veg fat", "chocolate">>,
                           <<"chocolate with < 5% veg fat", "< 5% veg fat">>,
                           <<"mini chips", "chips">> }

\* a row of the dataset; "nan" stands for a missing string
Code(prefix, id) == [nan |-> FALSE, prefix |-> prefix, id |-> id]
NanCode == [nan |-> TRUE, prefix |-> "", id |-> "nan"]

Row(code, fat, ptype, base, moulding, desc) ==
  [Material_Code |-> code, Fat |-> fat, Product_Type |-> ptype, Base_Type |-> base,
   Moulding_Type |-> moulding, Description |-> desc, Material_Description |-> "md"]

\* server.py 92-96: the rows load_data keeps are sorted by Material_Code and
\* hold each Material_Code once; the datasets are cut from this catalogue
Catalogue ==
  << Row(Code("CHD-", "1"), Present(40), "Chocolate", "Dark", "Callets", "long"),
     Row(Code("CHD-", "5"), NoInt, "Chocolate", "dark", "nan", "nan"),
     Row(Code("CHM-", "2"), Present(20), "Chocolate with < 5% Veg Fat", "Milk",
         "Mini Chips", "short"),
     Row(Code("CHM-", "3"), Present(40), "Chocolate", "Dark", "Callets", "nan"),
     Row(NanCode, Present(30), "Compound", "Dark", "Callets", "nan") >>

\* a dataset with more rows than either default limit
BigRows == 12
BigData ==
  [i \in 1..BigRows |->
     Row(Code("CHD-", ToString(100 + i)), Present(40), "Chocolate", "Dark",
         "Callets", "nan")]

\* the global df: None, or a frame with its rows and which columns it has
NotLoaded == [loaded |-> FALSE, fatCol |-> FALSE, missing |-> <<>>, rows |-> <<>>]
Frame(rows) == [loaded |-> TRUE, fatCol |-> TRUE, missing |-> <<>>, rows |-> rows]
Malformed ==
  [loaded |-> TRUE, fatCol |-> FALSE, missing |-> <<"Base_Type", "Moulding_Type">>,
   rows |-> <<>>]

RECURSIVE RowsAt(_)
RowsAt(S) ==
  IF S = {} THEN <<>>
  ELSE LET m == CHOOSE x \in S : \A y \in S : x <= y
       IN <<Catalogue[m]>> \o RowsAt(S \ {m})

Datasets ==
  { Frame(RowsAt(S)) : S \in {T \in SUBSET (1..Len(Catalogue)) : Cardinality(T) <= MaxRows} }
    \cup {Frame(BigData), Malformed}

\* the requests the handler may receive
Operators == {"==", "<", "<=", ">", ">="}
Args(n, fat_value, operator, chocolate_type, moulding_type) ==
  [n |-> n, fat_value |-> fat_value, operator |-> operator,
   chocolate_type |-> chocolate_type, moulding_type |-> moulding_type]
Request(name, args) == [name |-> name, arguments |-> args]
NoRequest ==
  [name |-> "none", arguments |-> Args(NoInt, NoInt, NoStr, NoStr, NoStr),
   fault |-> FALSE]
Limits == {NoInt, Present(1), Present(2)}

FatRequests ==
  { Request("query_skus_by_fat", Args(n, v, op, NoStr, NoStr)) :
      n \in Limits, v \in {NoInt, Present(30)},
      op \in {NoStr} \cup {Present(o) : o \in Operators \cup {"!="}} }

ChocRequests ==
  { Request("query_chocolate_products", Args(n, NoInt, NoStr, c, m)) :
      n \in Limits,
      c \in {NoStr, Present("Dark"), Present("Milk"), Present("Bitter")},
      m \in {NoStr, Present("callets"), Present("Chips")} }

Requests ==
  FatRequests \cup ChocRequests
    \cup {Request("delete_products", Args(NoInt, NoInt, NoStr, NoStr, NoStr))}

\* the emoji that open the worker's texts
CrossMark == "(cross mark)"
Magnifier == "(magnifying glass)"

\* TextContent(type="text", text=...); the text is a sequence of tokens
TextContent(text) == [type |-> "text", text |-> text]

\* what a query function does: it returns a content list or raises
Returned(content) == [raised |-> FALSE, err |-> "none", content |-> content]
RaisedIn(err) == [raised |-> TRUE, err |-> err, content |-> <<>>]
NoReply == [kind |-> "none", err |-> "none", content |-> <<>>]

\* "\n".join(lines), each line a sequence of tokens
RECURSIVE JoinLines(_)
JoinLines(ls) ==
  IF Len(ls) = 0 THEN <<>>
  ELSE IF Len(ls) = 1 THEN ls[1]
  ELSE ls[1] \o <<"\n">> \o JoinLines(Tail(ls))

\* ", ".join(names)
RECURSIVE JoinComma(_)
JoinComma(names) ==
  IF Len(names) = 0 THEN <<>>
  ELSE IF Len(names) = 1 THEN <<names[1]>>
  ELSE <<names[1], ", ">> \o JoinComma(Tail(names))

\* head that hands back every row
DfHead_Unlimited(rows, n) == rows

\* server.py 219, 308: DataFrame.head(n) for n >= 1
DfHead(rows, n) ==
  SubSeq(rows, 1, IF n < Len(rows) THEN n ELSE Len(rows))

\* server.py 204-210: operator_map
Compare(op, x, v) ==
  CASE op = "==" -> x = v
    [] op = "<" -> x < v
    [] op = "<=" -> x <= v
    [] op = ">" -> x > v
    [] op = ">=" -> x >= v

\* server.py 216: rows whose Fat compares true (a missing Fat never does)
\* and whose Material_Code is not missing
FatFilter(rows, op, v) ==
  SelectSeq(rows, LAMBDA r : /\ r.Fat.present
                             /\ Compare(op, r.Fat.val, v)
                             /\ ~r.Material_Code.nan)

\* server.py 240-245, 336-341: the description line, cut at 500 characters
DescLen(d) == IF d = "long" THEN 600 ELSE 40
DescLines(d) ==
  IF d # "N/A" /\ d # "nan"
    THEN << <<"    (information)  ">>
              \o (IF DescLen(d) > 500 THEN <<d, "[:497]", "...">> ELSE <<d>>) >>
    ELSE <<>>

\* server.py 230-246: the lines of one row
Bullet == "  (bullet) **"
FatEntry(r) ==
  << <<Bullet, r.Material_Code.prefix, r.Material_Code.id, "** (Fat: ",
       ToString(r.Fat.val), "g)">>,
     <<"    (memo) ", r.Material_Description>> >>
    \o DescLines(r.Description) \o << <<>> >>

RECURSIVE FatEntries(_)
FatEntries(rows) ==
  IF Len(rows) = 0 THEN <<>> ELSE FatEntry(rows[1]) \o FatEntries(Tail(rows))

\* server.py 182-248; fault: the filter over the frame raises
query_skus_by_fat(arguments, fault) ==
  LET n == IF arguments.n.present THEN arguments.n.val ELSE 10
      operator == IF arguments.operator.present THEN arguments.operator.val ELSE ">"
      fat_value == arguments.fat_value.val
  IN IF ~arguments.fat_value.present THEN RaisedIn("'fat_value'")
     ELSE IF ~df.fatCol
       THEN Returned(<<TextContent(<<CrossMark, " Error: 'Fat' column not found in dataset">>)>>)
     ELSE IF operator \notin Operators
       THEN Returned(<<TextContent(<<CrossMark, " Invalid operator: ", operator>>)>>)
     ELSE IF fault THEN RaisedIn("TypeError")
     ELSE LET results == DfHead(FatFilter(df.rows, operator, fat_value), n)
          IN IF Len(results) = 0
               THEN Returned(<<TextContent(<<Magnifier, " No SKUs found where Fat ",
                                             operator, " ", ToString(fat_value), "g">>)>>)
               ELSE Returned(<<TextContent(JoinLines(
                      << <<"(bar chart) Found ", ToString(Len(results)),
                           " SKU(s) where Fat ", operator, " ", ToString(fat_value),
                           "g:\n">> >> \o FatEntries(results)))>>)

\* server.py 279-283: prefix_map
PrefixNames == {"Dark", "Milk", "White"}
prefix_map(chocolate_type) ==
  CASE chocolate_type = "Dark" -> "CHD-"
    [] chocolate_type = "Milk" -> "CHM-"
    [] chocolate_type = "White" -> "CHW-"

\* server.py 290-305: the four filters
ChocFilter(rows, chocolate_type, moulding_type, expected_prefix) ==
  SelectSeq(rows, LAMBDA r :
    /\ StrContains(StrLower(r.Product_Type), "chocolate")
    /\ \/ StrLower(r.Product_Type) = "chocolate"
       \/ StrContains(StrLower(r.Product_Type), "< 5% veg fat")
    /\ StrLower(r.Base_Type) = StrLower(chocolate_type)
    /\ r.Moulding_Type # "nan"
    /\ StrContains(StrLower(r.Moulding_Type), moulding_type)
    /\ ~r.Material_Code.nan
    /\ r.Material_Code.prefix = expected_prefix)

\* server.py 321-342: the lines of one row
ChocEntry(r, expected_prefix) ==
  << <<"  ", IF r.Material_Code.prefix = expected_prefix THEN "(check)" ELSE "(ballot x)",
       " **", r.Material_Code.prefix, r.Material_Code.id, "**">>,
     <<"    (memo) ", r.Material_Description>>,
     <<"    Base: ", r.Base_Type, " | Moulding: ", r.Moulding_Type>> >>
    \o DescLines(r.Description) \o << <<>> >>

RECURSIVE ChocEntries(_, _)
ChocEntries(rows, expected_prefix) ==
  IF Len(rows) = 0 THEN <<>>
  ELSE ChocEntry(rows[1], expected_prefix) \o ChocEntries(Tail(rows), expected_prefix)

\* the test of line 310 left out
NoneFound_Never(results) == FALSE

\* server.py 310: if len(results) == 0
NoneFound(results) == Len(results) = 0

\* server.py 251-344; fault: a filter over the frame raises
query_chocolate_products(arguments, fault) ==
  LET n == IF arguments.n.present THEN arguments.n.val ELSE 5
      chocolate_type == arguments.chocolate_type.val
      moulding_type == StrLower(arguments.moulding_type.val)
  IN IF ~arguments.chocolate_type.present THEN RaisedIn("'chocolate_type'")
     ELSE IF ~arguments.moulding_type.present THEN RaisedIn("'moulding_type'")
     ELSE IF df.missing # <<>>
       THEN Returned(<<TextContent(<<CrossMark, " Missing columns: ">>
                                     \o JoinComma(df.missing))>>)
     ELSE IF chocolate_type \notin PrefixNames THEN RaisedIn(chocolate_type)
     ELSE IF fault THEN RaisedIn("AttributeError")
     ELSE LET expected_prefix == prefix_map(chocolate_type)
              results == DfHead(ChocFilter(df.rows, chocolate_type, moulding_type,
                                           expected_prefix), n)
          IN IF NoneFound(results)
               THEN Returned(<<TextContent(<<Magnifier, " No ", chocolate_type,
                                             " chocolate products found with moulding type '",
                                             moulding_type, "'">>)>>)
               ELSE Returned(<<TextContent(JoinLines(
                      << <<"(chocolate bar) Found ", ToString(Len(results)), " ",
                           chocolate_type, " chocolate product(s) with moulding type '",
                           moulding_type, "':\n">> >>
                        \o ChocEntries(results, expected_prefix)))>>)

\* a handler with no except clause
HandlerCatches_Nothing(err) == FALSE

\* server.py 178: except Exception catches what a query function raised
HandlerCatches(err) == TRUE

\* server.py 164-179: the worker's call_tool handler
server_call_tool(name, arguments, fault) ==
  IF ~df.loaded
    THEN Returned(<<TextContent(<<CrossMark,
                                  " Error: Dataset not loaded. Please restart the server.">>)>>)
  ELSE LET out == IF name = "query_skus_by_fat" THEN query_skus_by_fat(arguments, fault)
                  ELSE IF name = "query_chocolate_products"
                    THEN query_chocolate_products(arguments, fault)
                  ELSE Returned(<<TextContent(<<CrossMark, " Unknown tool: ", name>>)>>)
       IN IF out.raised /\ HandlerCatches(out.err)
            THEN Returned(<<TextContent(<<CrossMark, " Error: ", out.err>>)>>)
            ELSE out

\* server.py 347-364: main loads the dataset and serves, or returns when
\* load_data raised
ServerMain(data, loads) ==
  /\ mainPc = "worker"
  /\ IF loads THEN df' = data /\ mainPc' = "serving"
              ELSE UNCHANGED df /\ mainPc' = "exited"
  /\ UNCHANGED <<request, reply>>
  /\ UNCHANGED sessVars
  /\ UNCHANGED agentVars
  /\ UNCHANGED <<lastOp, lastCall>>

\* server.py 164-179: the served handler receives a request
ServerCallTool(name, arguments, fault) ==
  /\ mainPc = "serving"
  /\ request' = [name |-> name, arguments |-> arguments, fault |-> fault]
  /\ LET out == server_call_tool(name, arguments, fault)
     IN reply' = [kind |-> IF out.raised THEN "raise" ELSE "result",
                  err |-> out.err, content |-> out.content]
  /\ UNCHANGED df
  /\ UNCHANGED sessVars
  /\ UNCHANGED agentVars
  /\ UNCHANGED <<lastOp, lastCall, mainPc>>

\* ------------------------------------------------------------ the owners
\* a holder of the client object calls call_tool
CallTool(name, args) ==
  /\ mainPc = "api"
  /\ \E r \in SessionCallOutcomes(ResultContents) :
       lastCall' = call_tool(name, args, r)
  /\ lastOp' = [op |-> "call_tool", out |-> lastCall'.kind]
  /\ UNCHANGED sessVars
  /\ UNCHANGED serverVars
  /\ UNCHANGED agentVars
  /\ UNCHANGED mainPc

ApiConnect(failAt, listed) ==
  /\ mainPc = "api"
  /\ connect(failAt, listed)
  /\ UNCHANGED mainPc

ApiDisconnect(closeRaises) ==
  /\ mainPc = "api"
  /\ disconnect(closeRaises)
  /\ UNCHANGED mainPc

\* ollama_agent.py 185-188, gemini_agent.py 157-160: main connects; an
\* exception of connect leads to the finally clause
MainConnect(failAt, listed) ==
  /\ mainPc = "start"
  /\ connect(failAt, listed)
  /\ mainPc' = IF failAt = "none" THEN "connected" ELSE "finally"

\* the constructor called outside the try statement
AfterNewAgent_Unscoped(ok) == IF ok THEN "loop" ELSE "done"

\* ollama_agent.py 190-192 and 225, gemini_agent.py 162-164 and 197: where
\* main goes after the constructor returned (ok) or raised
AfterNewAgent(ok) == IF ok THEN "loop" ELSE "finally"

\* ollama_agent.py 192 with 38-40, gemini_agent.py 164 with 37-39: the agent
\* is constructed; __init__ translates the client's tools and may raise
MainNewAgent ==
  /\ mainPc = "connected"
  /\ LET made == NewAgentDeclarations(backend, tools)
     IN /\ declarations' = IF made.ok THEN [made |-> TRUE, decls |-> made.decls]
                           ELSE declarations
        /\ mainPc' = AfterNewAgent(made.ok)
        /\ lastOp' = [op |-> "new_agent", out |-> IF made.ok THEN "ok" ELSE "raise"]
  /\ UNCHANGED sessVars
  /\ UNCHANGED serverVars
  /\ UNCHANGED <<backend, messages, pc, response, idx, pending, stage, turns,
                 rounds, requested, invoked, histAtStart, userText, inflight>>
  /\ UNCHANGED lastCall

\* ollama_agent.py 217, gemini_agent.py 189: a turn of the conversation loop
MainTurn(m) ==
  /\ mainPc = "loop"
  /\ \/ OllamaSendMessage(m)
     \/ GeminiSendMessage(m)
  /\ UNCHANGED mainPc

\* ollama_agent.py 217 and 225, gemini_agent.py 189 and 197: the task is
\* interrupted while send_message awaits the model or the tool; the
\* cancellation is no Exception, it leaves the loop and reaches the finally
\* clause with the turn abandoned where it was
MainInterrupt ==
  /\ mainPc = "loop"
  /\ pc \in {"query", "tools", "awaiting"}
  /\ pc' = "interrupted"
  /\ mainPc' = "finally"
  /\ lastOp' = [op |-> "send_message", out |-> "interrupted"]
  /\ UNCHANGED sessVars
  /\ UNCHANGED serverVars
  /\ UNCHANGED <<backend, messages, response, idx, pending, stage, turns, rounds,
                 requested, invoked, histAtStart, userText, declarations, inflight>>
  /\ UNCHANGED lastCall

\* ollama_agent.py 209-211 and 219-221, gemini_agent.py 181-183 and 191-193:
\* quit, or an interrupt at the prompt, leaves the loop
MainQuit ==
  /\ mainPc = "loop"
  /\ pc = "idle"
  /\ mainPc' = "finally"
  /\ UNCHANGED sessVars
  /\ UNCHANGED serverVars
  /\ UNCHANGED agentVars
  /\ UNCHANGED <<lastOp, lastCall>>

\* ollama_agent.py 225-227, gemini_agent.py 197-199: the finally clause
MainFinally(closeRaises) ==
  /\ mainPc = "finally"
  /\ disconnect(closeRaises)
  /\ mainPc' = "done"

InitCommon ==
  /\ session = "None"
  /\ sessState = "none"
  /\ hasStdio = FALSE
  /\ stdioState = "none"
  /\ tools = <<>>
  /\ workers = 0
  /\ sessEnters = 0 /\ sessExits = 0
  /\ stdioEnters = 0 /\ stdioExits = 0
  /\ connState = "Never"
  /\ nConn = 0 /\ nDisc = 0
  /\ lastOp = [op |-> "none", out |-> "none"]
  /\ lastCall = NoCall
  /\ messages = <<>>
  /\ pc = "idle"
  /\ response = NoResponse
  /\ idx = 0
  /\ pending = <<>>
  /\ stage = "initial"
  /\ turns = 0 /\ rounds = 0
  /\ requested = <<>>
  /\ invoked = <<>>
  /\ histAtStart = <<>>
  /\ userText = "none"
  /\ declarations = NoDeclarations
  /\ inflight = 0
  /\ df = NotLoaded
  /\ request = NoRequest
  /\ reply = NoReply

\* the client object right after BarryMCPClient.__init__ (client.py 20-33),
\* driven through its public methods
Init ==
  /\ InitCommon
  /\ backend = "none"
  /\ mainPc = "api"

Next ==
  \/ \E f \in FailPoints, l \in ListToolsResponses : ApiConnect(f, l)
  \/ \E b \in BOOLEAN : ApiDisconnect(b)
  \/ \E n \in ToolNames, a \in ArgMaps : CallTool(n, a)

Spec == Init /\ [][Next]_vars

\* main of either agent: the client is created, connected, the agent runs
\* turns, the finally clause disconnects
InitAgent ==
  /\ InitCommon
  /\ backend \in {"ollama", "gemini"}
  /\ mainPc = "start"

NextAgent ==
  \/ \E f \in FailPoints, l \in ListToolsResponses : MainConnect(f, l)
  \/ MainNewAgent
  \/ \E m \in UserTexts : MainTurn(m)
  \/ \E resp \in OllamaResponses : OllamaChat(resp)
  \/ OllamaChatFails
  \/ OllamaIssueCall
  \/ OllamaToolCall
  \/ \E resp \in GeminiResponses : GeminiChatSend(resp)
  \/ GeminiChatSendFails
  \/ GeminiIssueCall
  \/ GeminiToolCall
  \/ MainQuit
  \/ MainInterrupt
  \/ \E b \in BOOLEAN : MainFinally(b)

SpecAgent == InitAgent /\ [][NextAgent]_vars

\* main up to the construction of the agent, against a worker that may
\* declare any of the descriptor lists
NextTranslate ==
  \/ \E f \in FailPoints, l \in DescriptorLists : MainConnect(f, l)
  \/ MainNewAgent
  \/ \E b \in BOOLEAN : MainFinally(b)

SpecTranslate == InitAgent /\ [][NextTranslate]_vars

\* the worker process alone: main, then the handler serving requests
InitServer ==
  /\ InitCommon
  /\ backend = "none"
  /\ mainPc = "worker"

NextServer ==
  \/ \E data \in Datasets, loads \in BOOLEAN : ServerMain(data, loads)
  \/ \E req \in Requests, fault \in BOOLEAN :
       ServerCallTool(req.name, req.arguments, fault)

SpecServer == InitServer /\ [][NextServer]_vars

\* ================================================================ claims
\* ---- C1: in every ToolSession state other than Connected, invoke fails
\* with NotConnected and sends no call-tool request to the worker
C1_InvokeOnlyWhenConnected ==
  (lastCall.kind # "none" /\ lastCall.state # "Connected")
    => (lastCall.kind = "raise" /\ lastCall.err = "NotConnected" /\ ~lastCall.sent)

\* ---- C2: disconnect() on a never-connected or already-disconnected
\* session raises nothing and closes nothing, so the session and the transport
\* are closed at most once per successful acquisition
AlreadyReleased ==
  \/ connState = "Never"
  \/ connState = "Disconnected" /\ lastOp = [op |-> "disconnect", out |-> "ok"]

C2_DisconnectIsNoOp ==
  [][ (nDisc' = nDisc + 1 /\ AlreadyReleased)
        => /\ lastOp'.out = "ok"
           /\ UNCHANGED <<sessExits, stdioExits, sessState, stdioState, workers>>
           /\ sessExits' <= sessEnters'
           /\ stdioExits' <= stdioEnters' ]_vars

\* ---- C3: after a connect() that failed at any step, the following
\* disconnect() raises no exception and leaves no worker process running and
\* no session open
C3_DisconnectAfterFailedConnect ==
  [][ (nDisc' = nDisc + 1 /\ lastOp.op = "connect" /\ lastOp.out # "ok")
        => /\ lastOp'.out = "ok"
           /\ workers' = 0
           /\ sessState' # "entered" ]_vars

\* ---- C4 (as stated): on a Connected session invoke never raises
C4_InvokeNeverRaises ==
  lastCall.state = "Connected" => lastCall.kind # "raise"

\* ---- C4 (amended): on a Connected session invoke returns a text exactly
\* when the session's call delivered a result; when the session's call raised,
\* invoke raises that same error to its caller and returns no text
C4_InvokePropagates ==
  lastCall.state = "Connected" =>
    /\ lastCall.raw = "result" => (lastCall.kind = "return" /\ lastCall.err = "none")
    /\ lastCall.raw = "raise" =>
         (lastCall.kind = "raise" /\ lastCall.err = "McpError" /\ lastCall.text = <<>>)

C4_Witness ==
  lastCall.state = "Connected" /\ lastCall.raw = "raise" /\ lastCall.kind = "raise"

\* ---- C5: a tool invocation that fails never raises out of send_message:
\* the step that made the failing call leaves send_message running, the
\* failure is rendered as the tool text with an error indication (appended to
\* messages by Ollama, made the next chat message by Gemini), and the loop goes
\* on to the next tool call or to the next model query
ErrorRendered ==
  IF backend = "ollama"
    THEN /\ Len(messages) > 0
         /\ messages[Len(messages)].role = "tool"
         /\ messages[Len(messages)].content = <<"Error: ", lastCall.err>>
    ELSE /\ pending = <<"Error calling function ", lastCall.name, ": ", lastCall.err>>
         /\ stage = "error"

C5_ToolFailureStaysInside ==
  [][ (Len(invoked') = Len(invoked) + 1 /\ lastCall'.kind = "raise")
        => /\ pc' \in {"tools", "query"}
           /\ lastOp'.out = "running"
           /\ ErrorRendered' ]_vars

C5_Witness ==
  /\ backend = "ollama"
  /\ pc = "query"
  /\ lastCall.kind = "raise"
  /\ invoked # <<>>
  /\ ErrorRendered

\* ---- C6: every assistant tool-call Message is followed at once by the
\* tool Messages of its calls, one per call, before any further model query
RECURSIVE WellPaired(_)
WellPaired(h) ==
  IF Len(h) = 0 THEN TRUE
  ELSE IF h[1].role = "assistant" /\ h[1].tool_calls # <<>>
    THEN LET k == Len(h[1].tool_calls)
         IN /\ Len(h) >= 1 + k
            /\ \A j \in 2..(1 + k) : h[j].role = "tool"
            /\ (Len(h) > 1 + k => h[2 + k].role # "tool")
            /\ WellPaired(SubSeq(h, 2 + k, Len(h)))
  ELSE h[1].role # "tool" /\ WellPaired(Tail(h))

\* the conversation state a query is made on
StateAtQuery ==
  IF backend = "gemini"
    THEN Append(messages, Msg(IF stage = "initial" THEN "user" ELSE "tool", pending, <<>>))
    ELSE messages

C6_ToolCallFollowedByResult ==
  /\ pc = "query" => WellPaired(StateAtQuery)
  /\ (pc = "idle" /\ lastOp.op = "send_message" /\ lastOp.out = "return")
       => WellPaired(messages)

\* ---- C7: every model query is made on a state with no unresolved tool
\* call: each tool-call request of an earlier response has been executed
C7_NoDanglingCallAtQuery ==
  pc = "query" => Len(invoked) = Len(requested)

\* ---- C8: for every tool-call request of a model response call_tool is
\* called exactly once with that name and those arguments, in the order of the
\* requests, before the next model query or the return
C8_CallsPassedThrough ==
  pc \in {"query", "idle"} => invoked = requested

\* ---- C9: a turn whose model response has no tool-call request returns
\* the model's text and grows the conversation state by exactly the user
\* Message and the assistant Message, earlier Messages unchanged
C9_PlainTurnGrowsByTwo ==
  (pc = "idle" /\ lastOp.op = "send_message" /\ lastOp.out = "return"
     /\ requested = <<>>)
    => /\ lastOp.text = response.content
       /\ Len(messages) = Len(histAtStart) + 2
       /\ SubSeq(messages, 1, Len(histAtStart)) = histAtStart
       /\ messages[Len(messages) - 1] = Msg("user", <<userText>>, <<>>)
       /\ messages[Len(messages)] = Msg("assistant", response.content, <<>>)

\* ---- C10: send_message returns only on a model response that contains
\* no tool-call request
C10_ReturnsOnlyWithoutToolCall ==
  (pc = "idle" /\ lastOp.op = "send_message" /\ lastOp.out = "return")
    => response.tool_calls = <<>>

\* ---- C11: the conversation state is append-only over the lifetime of the
\* agent: no step of send_message removes or rewrites an earlier Message, so
\* every model query carries all Messages of the earlier turns
C11_HistoryAppendOnly ==
  [][ /\ Len(messages') >= Len(messages)
      /\ SubSeq(messages', 1, Len(messages)) = messages ]_vars

\* ---- C12: when a model query fails, the error reaches the caller of
\* send_message and the conversation state is left consistent: every user
\* Message has its assistant reply and every tool call its tool result
RECURSIVE UsersAnswered(_)
UsersAnswered(h) ==
  IF Len(h) = 0 THEN TRUE
  ELSE IF h[1].role = "user"
    THEN Len(h) > 1 /\ h[2].role = "assistant" /\ UsersAnswered(Tail(h))
  ELSE UsersAnswered(Tail(h))

C12_BackendErrorKeepsHistory ==
  (pc = "idle" /\ lastOp.op = "send_message" /\ lastOp.out = "raise")
    => (UsersAnswered(messages) /\ WellPaired(messages))

\* ---- C13: when the handshake does not complete within the timeout,
\* connect fails with ConnectionTimeout to its caller, issues no list-tools
\* request, stores no tools, and the session is not Connected and is unusable
\* for invoke: a call_tool made then sends no request
TimedOut(op) == op.op = "connect" /\ op.out = "ConnectionTimeout"

C13_TimeoutLeavesSessionUnusable ==
  [][ /\ (nConn' = nConn + 1 /\ TimedOut(lastOp'))
           => (~lastOp'.listTools /\ tools' = tools /\ connState' # "Connected")
      /\ (TimedOut(lastOp) /\ lastOp'.op = "call_tool")
           => ~lastCall'.sent ]_vars

\* ---- C16: for every descriptor with required-parameter list R, the
\* declaration made from it has the required list R, for both backends
RequiredList(w) == IF w.present THEN w.val ELSE <<>>

DeclRequired(d) ==
  IF backend = "gemini" THEN d.parameters.required
  ELSE RequiredList(d.function.parameters.required)

C16_RequiredPreserved ==
  declarations.made =>
    /\ Len(declarations.decls) = Len(tools)
    /\ \A i \in 1..Len(tools) :
         DeclRequired(declarations.decls[i]) = RequiredList(tools[i].inputSchema.required)

C16_Witness ==
  /\ declarations.made
  /\ backend = "gemini"
  /\ \E i \in 1..Len(tools) : Len(RequiredList(tools[i].inputSchema.required)) > 0

\* ---- C17: the names of the declarations are the names of the session's
\* tools: same length, same names, same order, for both backends
DeclName(d) == IF backend = "gemini" THEN d.name ELSE d.function.name

C17_NamesPreserved ==
  declarations.made =>
    /\ Len(declarations.decls) = Len(tools)
    /\ \A i \in 1..Len(declarations.decls) :
         i <= Len(tools) /\ DeclName(declarations.decls[i]) = tools[i].name

C17_Witness ==
  /\ declarations.made
  /\ Len(tools) = 2
  /\ DeclName(declarations.decls[1]) # DeclName(declarations.decls[2])

\* ---- C18: in a Gemini declaration a parameter whose descriptor has no
\* enum key or an empty enum has no enum field, and a non-empty enum is passed
\* through unchanged
C18_EmptyEnumOmitted ==
  (declarations.made /\ backend = "gemini") =>
    \A i \in 1..Len(tools) :
      \A j \in 1..Len(tools[i].inputSchema.properties) :
        LET e == tools[i].inputSchema.properties[j].enum
            d == declarations.decls[i].parameters.properties[j].enum
        IN IF e.present /\ e.val # <<>>
             THEN d.present /\ d.val = e.val
             ELSE ~d.present

C18_Witness ==
  /\ declarations.made
  /\ backend = "gemini"
  /\ \E i \in 1..Len(tools) :
       \E j \in 1..Len(tools[i].inputSchema.properties) :
         /\ tools[i].inputSchema.properties[j].enum = Present(<<>>)
         /\ ~declarations.decls[i].parameters.properties[j].enum.present

\* ---- C19: constructing the declarations from a descriptor
\* with a parameter of an unsupported type fails, for every backend
SupportedTypes == {"string", "number", "integer", "boolean", "object", "array"}

HasUnsupportedType(ts) ==
  \E i \in 1..Len(ts) :
    \E j \in 1..Len(ts[i].inputSchema.properties) :
      ts[i].inputSchema.properties[j].type \notin (SupportedTypes \cup {"absent"})

C19_UnsupportedTypeFails ==
  (lastOp.op = "new_agent" /\ HasUnsupportedType(tools)) => lastOp.out = "raise"

\* ---- C14: main calls disconnect exactly once on every way out: after a
\* quit, after an exception of connect or of the agent's construction, and
\* after an interruption during a turn; it calls it only on the way out
C14_DisconnectExactlyOnce ==
  /\ mainPc = "done" => nDisc = 1
  /\ mainPc # "done" => nDisc = 0

C14_Witness ==
  /\ mainPc = "done"
  /\ pc = "interrupted"
  /\ nDisc = 1

\* ---- C15: at most one request is outstanding on the session at any time:
\* the tool calls of a turn go out one after another, each with its result
\* before the next call or the next model query starts
C15_OneOutstandingRequest ==
  /\ inflight <= 1
  /\ pc \in {"idle", "query", "tools"} => inflight = 0

C15_Witness ==
  /\ pc = "awaiting"
  /\ inflight = 1
  /\ Len(response.tool_calls) = 2
  /\ Len(invoked) = 1

\* ---- C20: call_tool returns the texts of the textual parts of the result,
\* in order, joined by newlines, and the text "No result" whenever the result
\* has no textual part, be it empty or made of non-textual parts only
C20_NoTextMeansNoResult ==
  lastCall.raw = "result" =>
    /\ lastCall.kind = "return"
    /\ lastCall.text = IF TextsOf(lastCall.content) = <<>>
                         THEN <<"No result">>
                         ELSE JoinNL(TextsOf(lastCall.content))

\* ---- C26: after any sequence of connect and disconnect calls that ends
\* with a disconnect, no worker spawned by the session is still running, also
\* when connect was called twice with no disconnect in between
C26_NoWorkerLeftRunning ==
  lastOp.op = "disconnect" => workers = 0

\* ---- C27: disconnect closes the session first and the worker transport
\* after it, and the transport is closed also when closing the session raises
C27_TransportReleasedOnRaise ==
  [][ nDisc' = nDisc + 1
        => /\ session = "obj" => sessExits' = sessExits + 1
           /\ hasStdio => stdioExits' = stdioExits + 1
           /\ stdioState = "open" => (stdioState' = "closed" /\ sessState' # "entered") ]_vars

\* ---- C24: a successful connect stores the worker's list-tools response as
\* it came, same descriptors in the same order; no step of call_tool or of
\* send_message changes the stored tools or the agent's declarations, which
\* are made once, by the agent's construction
C24_ToolSetFrame ==
  [][ /\ (nConn' = nConn + 1 /\ lastOp'.out = "ok") => tools' = lastOp'.listed
      /\ mainPc = "loop" => (tools' = tools /\ declarations' = declarations)
      /\ declarations' # declarations
           => (lastOp'.op = "new_agent" /\ ~declarations.made) ]_vars

C24_Witness ==
  /\ lastOp.op = "send_message"
  /\ lastOp.out = "return"
  /\ Len(invoked) > 0
  /\ Len(tools) = 2
  /\ declarations.made
  /\ Len(declarations.decls) = 2

\* ---- C23: send_message ends when the model answers without a tool-call
\* request, and only then: no count of iterations ends it, so as long as
\* every answer requests a tool the loop goes on
C23_EndsExactlyOnPlainAnswer ==
  [][ (pc = "query" /\ (pc' = "tools" \/ (pc' = "idle" /\ lastOp'.out = "return")))
        => (pc' = "idle" <=> response'.tool_calls = <<>>) ]_vars

\* ---- C21: query_skus_by_fat with fat_value v, operator op and limit n, on
\* a dataset with m matches, returns the zero-results message when m = 0 and
\* otherwise a text whose header reports "Found k SKU(s) where Fat op vg" with
\* k = min(n, m), followed by exactly k entries; n left out counts as 10 and
\* the operator left out as ">"
EntriesIn(text) == Cardinality({i \in 1..Len(text) : text[i] = Bullet})

FatCase ==
  /\ reply.kind # "none"
  /\ request.name = "query_skus_by_fat"
  /\ request.arguments.fat_value.present
  /\ request.arguments.operator.present => request.arguments.operator.val \in Operators
  /\ df.fatCol
  /\ ~request.fault

C21_FatListing ==
  FatCase =>
    LET a == request.arguments
        n == IF a.n.present THEN a.n.val ELSE 10
        op == IF a.operator.present THEN a.operator.val ELSE ">"
        v == ToString(a.fat_value.val)
        m == Len(FatFilter(df.rows, op, a.fat_value.val))
        k == IF n < m THEN n ELSE m
    IN /\ reply.kind = "result"
       /\ Len(reply.content) = 1
       /\ IF m = 0
            THEN reply.content[1].text = <<Magnifier, " No SKUs found where Fat ", op, " ", v, "g">>
            ELSE /\ SubSeq(reply.content[1].text, 1, 7)
                      = <<"(bar chart) Found ", ToString(k), " SKU(s) where Fat ", op, " ", v, "g:\n">>
                 /\ EntriesIn(reply.content[1].text) = k

C21_Witness ==
  /\ FatCase
  /\ ~request.arguments.n.present
  /\ ~request.arguments.operator.present
  /\ Len(df.rows) = BigRows
  /\ Len(reply.content) = 1
  /\ EntriesIn(reply.content[1].text) = 10

\* ---- C22: query_chocolate_products with a chocolate_type and a
\* moulding_type for which the dataset has no match returns one text saying
\* that no products of that chocolate type were found with that moulding type
ChocCase ==
  /\ reply.kind # "none"
  /\ request.name = "query_chocolate_products"
  /\ request.arguments.chocolate_type.present
  /\ request.arguments.chocolate_type.val \in PrefixNames
  /\ request.arguments.moulding_type.present
  /\ df.missing = <<>>
  /\ ~request.fault

C22_NoMatchIsSaid ==
  ChocCase =>
    LET c == request.arguments.chocolate_type.val
        mt == StrLower(request.arguments.moulding_type.val)
    IN ChocFilter(df.rows, c, mt, prefix_map(c)) = <<>>
         => /\ reply.kind = "result"
            /\ reply.content =
                 <<TextContent(<<Magnifier, " No ", c,
                                 " chocolate products found with moulding type '", mt, "'">>)>>

C22_Witness ==
  /\ ChocCase
  /\ request.arguments.chocolate_type.val = "Dark"
  /\ request.arguments.moulding_type.val = "callets"
  /\ Len(df.rows) > 0
  /\ Len(reply.content) = 1
  /\ reply.content[1].text[1] = Magnifier

\* ---- C25: the worker's call-tool handler never raises: an unknown tool
\* name, a missing required argument, an invalid operator and any exception
\* inside a query come back as one text part that carries an error mark
QueryFails ==
  \/ request.name \notin ToolNames
  \/ /\ request.name = "query_skus_by_fat"
     /\ \/ ~request.arguments.fat_value.present
        \/ request.arguments.operator.present
             /\ request.arguments.operator.val \notin Operators
        \/ query_skus_by_fat(request.arguments, request.fault).raised
  \/ /\ request.name = "query_chocolate_products"
     /\ \/ ~request.arguments.chocolate_type.present
        \/ ~request.arguments.moulding_type.present
        \/ query_chocolate_products(request.arguments, request.fault).raised

C25_HandlerNeverRaises ==
  reply.kind # "none" =>
    /\ reply.kind = "result"
    /\ Len(reply.content) = 1
    /\ reply.content[1].type = "text"
    /\ QueryFails => reply.content[1].text[1] = CrossMark

C25_Witness ==
  /\ reply.kind = "result"
  /\ request.name = "query_skus_by_fat"
  /\ ~request.arguments.fat_value.present
  /\ reply.content = <<TextContent(<<CrossMark, " Error: ", "'fat_value'">>)>>
====
